---------------------------- MODULE Spec2Model ----------------------------
(***************************************************************************)
(* The analysis pipeline of src/App.tsx: the React state of App            *)
(* (reviews, language, isAnalyzing, result, error), the handlers that      *)
(* write it (textarea onChange, language select, paste, the example        *)
(* button, the generate button), the asynchronous analyzeReviews and the   *)
(* reviewStrength scorer.                                                  *)
(*                                                                         *)
(* Text is a sequence of one-character strings.  "w" stands for any        *)
(* non-whitespace character, " " and "\n" are the whitespace characters.   *)
(* A JavaScript value that may be null/undefined is a sequence of length   *)
(* at most one: None is null/undefined, Some(v) is the value v.            *)
(***************************************************************************)
EXTENDS Integers, Sequences, FiniteSets, TLC

VARIABLES
    reviews,      \* useState('')              App.tsx:41
    isAnalyzing,  \* useState(false)           App.tsx:42
    result,       \* useState<AnalysisResult | null>(null)   App.tsx:43
    error,        \* useState<string | null>(null)           App.tsx:44
    language,     \* useState('Auto-detect')   App.tsx:45
    nCalls,       \* number of generateContent calls started so far
    inflight,     \* the generateContent promises not yet settled, by call number;
                  \* solo: no other call was pending at any time since it started
    latest        \* the most recently accepted submission: the state it was
                  \* made in, the contents sent, the response (0 while pending)

vars == <<reviews, isAnalyzing, result, error, language, nCalls, inflight,
          latest>>

pipeline == <<isAnalyzing, result, error>>

----------------------------------------------------------------------------
(* Bounds *)

\* generateContent calls started in one run
MaxCalls == 3

\* words of the texts typed when the scorer is exercised
MaxWords == 61

----------------------------------------------------------------------------
(* null / undefined *)

None == <<>>

Some(v) == <<v>>

----------------------------------------------------------------------------
(* Text: String.prototype.trim, split(/\s+/), filter(w => w.length > 0) *)

IsSpace(c) == c \in {" ", "\n"}

RECURSIVE TrimStart(_)
TrimStart(s) ==
    IF s # <<>> /\ IsSpace(Head(s)) THEN TrimStart(Tail(s)) ELSE s

RECURSIVE TrimEnd(_)
TrimEnd(s) ==
    IF s # <<>> /\ IsSpace(s[Len(s)])
    THEN TrimEnd(SubSeq(s, 1, Len(s) - 1))
    ELSE s

Trim(s) == TrimEnd(TrimStart(s))

\* !text.trim()
Blank(s) == Trim(s) = <<>>

\* index of the first whitespace character of s at or after i, Len(s)+1 if none
RECURSIVE NextSpace(_, _)
NextSpace(s, i) ==
    IF i > Len(s) \/ IsSpace(s[i]) THEN i ELSE NextSpace(s, i + 1)

\* index of the first non-whitespace character of s at or after i
RECURSIVE NextWord(_, _)
NextWord(s, i) ==
    IF i > Len(s) \/ ~IsSpace(s[i]) THEN i ELSE NextWord(s, i + 1)

\* s.split(/\s+/): the pieces between maximal runs of whitespace; "" gives [""]
RECURSIVE SplitFrom(_, _)
SplitFrom(s, i) ==
    LET j == NextSpace(s, i)
    IN  IF j > Len(s)
        THEN << SubSeq(s, i, Len(s)) >>
        ELSE << SubSeq(s, i, j - 1) >> \o SplitFrom(s, NextWord(s, j))

Split(s) == SplitFrom(s, 1)

NonEmpty(w) == Len(w) > 0

\* reviews.trim().split(/\s+/).filter(w => w.length > 0).length
WordCount(s) == Len(SelectSeq(Split(Trim(s)), NonEmpty))

----------------------------------------------------------------------------
(* reviewStrength (useMemo over [reviews]) *)

StrengthOffByOne(words) ==
    IF words = 0 THEN [label |-> "Empty", width |-> 0]
    ELSE IF words <= 10 THEN [label |-> "Weak", width |-> 25]
    ELSE IF words < 30 THEN [label |-> "Fair", width |-> 50]
    ELSE IF words < 60 THEN [label |-> "Good", width |-> 75]
    ELSE [label |-> "Excellent", width |-> 100]

Strength(words) ==
    IF words = 0 THEN [label |-> "Empty", width |-> 0]
    ELSE IF words < 10 THEN [label |-> "Weak", width |-> 25]
    ELSE IF words < 30 THEN [label |-> "Fair", width |-> 50]
    ELSE IF words < 60 THEN [label |-> "Good", width |-> 75]
    ELSE [label |-> "Excellent", width |-> 100]

reviewStrength == Strength(WordCount(reviews))

----------------------------------------------------------------------------
(* Texts *)

RECURSIVE Repeat(_, _)
Repeat(s, n) == IF n = 0 THEN <<>> ELSE s \o Repeat(s, n - 1)

\* n words, each preceded by gap whitespace characters except the first,
\* with lead/trail whitespace characters around them
MkText(n, lead, gap, trail) ==
    Repeat(<<"\n">>, lead)
      \o (IF n = 0 THEN <<>> ELSE <<"w">> \o Repeat(Repeat(<<" ">>, gap) \o <<"w">>, n - 1))
      \o Repeat(<<" ">>, trail)

\* the example of the "Try with Example Reviews" button: 8 lines, each a dash
\* and its words, joined by newlines
ExampleLineWords == <<13, 13, 11, 13, 13, 11, 10, 11>>

RECURSIVE ExampleFrom(_)
ExampleFrom(i) ==
    IF i > Len(ExampleLineWords) THEN <<>>
    ELSE (IF i = 1 THEN <<>> ELSE <<"\n">>)
           \o <<"-">> \o Repeat(<<" ", "w">>, ExampleLineWords[i] - 1)
           \o ExampleFrom(i + 1)

Example == ExampleFrom(1)

\* what the user types or pastes in the pipeline's specification
Texts == { <<>>, <<" ", "\n">>, <<" ", "w", " ", "w">> }

Languages == {"Auto-detect", "Telugu"}

----------------------------------------------------------------------------
(* JSON text and JSON.parse                                                *)
(*                                                                         *)
(* A JSON text is a sequence of tokens: the braces, the comma, the literal *)
(* null, and "key": value members.  JSON.parse accepts `null` and an       *)
(* object `{ member , member ... }`; it throws SyntaxError on anything     *)
(* else.  The parsed object is a function from its keys to their values;   *)
(* a repeated key keeps its last value.                                    *)

Tok(t) == [tok |-> t, key |-> "", val |-> <<>>]

Member(k, v) == [tok |-> "member", key |-> k, val |-> v]

\* the inside of an object: members separated by single commas
RECURSIVE MembersOk(_, _)
MembersOk(ts, i) ==
    IF i > Len(ts) THEN FALSE
    ELSE /\ ts[i].tok = "member"
         /\ \/ i = Len(ts)
            \/ /\ i + 1 < Len(ts)
               /\ ts[i + 1].tok = ","
               /\ MembersOk(ts, i + 2)

\* the object the members ts[i..] add to acc, left to right
RECURSIVE ObjectFrom(_, _, _)
ObjectFrom(ts, i, acc) ==
    IF i > Len(ts) THEN acc
    ELSE IF ts[i].tok = "member"
         THEN ObjectFrom(ts, i + 1,
                [k \in DOMAIN acc \cup {ts[i].key} |->
                    IF k = ts[i].key THEN ts[i].val ELSE acc[k]])
         ELSE ObjectFrom(ts, i + 1, acc)

EmptyObject == [k \in {} |-> None]

JSONParseDropsLast(text) ==
    IF Len(text) = 1 /\ text[1].tok = "null"
    THEN [ok |-> TRUE, value |-> None]
    ELSE IF /\ Len(text) >= 2
            /\ text[1].tok = "{"
            /\ text[Len(text)].tok = "}"
            /\ \/ Len(text) = 2
               \/ MembersOk(SubSeq(text, 2, Len(text) - 1), 1)
         THEN [ok |-> TRUE,
               value |-> Some(ObjectFrom(SubSeq(text, 2, Len(text) - 3), 1, EmptyObject))]
         ELSE [ok |-> FALSE, value |-> None]

JSONParseLenient(text) ==
    [ok |-> TRUE, value |-> Some(ObjectFrom(text, 1, EmptyObject))]

\* JSON.parse(text): ok is FALSE when it throws
JSONParse(text) ==
    IF Len(text) = 1 /\ text[1].tok = "null"
    THEN [ok |-> TRUE, value |-> None]
    ELSE IF /\ Len(text) >= 2
            /\ text[1].tok = "{"
            /\ text[Len(text)].tok = "}"
            /\ \/ Len(text) = 2
               \/ MembersOk(SubSeq(text, 2, Len(text) - 1), 1)
         THEN [ok |-> TRUE,
               value |-> Some(ObjectFrom(SubSeq(text, 2, Len(text) - 1), 1, EmptyObject))]
         ELSE [ok |-> FALSE, value |-> None]

\* '{}'
EmptyObjectText == << Tok("{"), Tok("}") >>

----------------------------------------------------------------------------
(* The responses of generateContent *)

\* required: [...] of the responseSchema
MandatoryFields ==
    {"painPoints", "sentiment", "salesBlockers", "marketingStrategy",
     "salesStrategy", "annualIncrementPlan", "growthProjection"}

Point(m, c, p) == [month |-> m, current |-> c, projected |-> p]

Projection6 ==
    << Point("Jan", 5, 8), Point("Feb", 6, 14), Point("Mar", 6, 21),
       Point("Apr", 7, 29), Point("May", 7, 37), Point("Jun", 8, 45) >>

PainPoints8 == << "checkout", "shipping", "support", "crash",
                  "price", "subscription", "speed", "search" >>

FullMembers ==
    << Member("painPoints", PainPoints8),
       Member("sentiment", "Mixed"),
       Member("salesBlockers", << "checkout", "support" >>),
       Member("marketingStrategy", "md-marketing"),
       Member("salesStrategy", "md-sales"),
       Member("annualIncrementPlan", "md-plan"),
       Member("growthProjection", Projection6) >>

RECURSIVE Commas(_, _)
Commas(ms, i) ==
    IF i > Len(ms) THEN <<>>
    ELSE (IF i = 1 THEN <<>> ELSE << Tok(",") >>) \o << ms[i] >> \o Commas(ms, i + 1)

ObjectText(ms) == << Tok("{") >> \o Commas(ms, 1) \o << Tok("}") >>

NotSalesStrategy(m) == m.key # "salesStrategy"

ShortMembers ==
    [i \in 1..7 |-> IF FullMembers[i].key = "growthProjection"
                    THEN Member("growthProjection", SubSeq(Projection6, 1, 5))
                    ELSE FullMembers[i]]

Rejected(c) == [rejected |-> TRUE, cause |-> c, text |-> None]

Resolved(t) == [rejected |-> FALSE, cause |-> "", text |-> t]

\* what the external call may do: reject (transport, auth, quota), or
\* resolve with a response whose text is absent, empty, or some JSON text
Responses ==
    << Rejected("transport"),
       Rejected("auth"),
       Rejected("quota"),
       Resolved(None),
       Resolved(Some(<<>>)),
       Resolved(Some(ObjectText(FullMembers))),
       Resolved(Some(ObjectText(SelectSeq(FullMembers, NotSalesStrategy)))),
       Resolved(Some(ObjectText(ShortMembers))),
       Resolved(Some(<< Tok("{"), FullMembers[1] >>)),
       Resolved(Some(<< Tok("null") >>)),
       Resolved(Some(<< Tok("{"), FullMembers[2], Tok(","), Tok("}") >>)) >>

ResponseIds == 1..Len(Responses)

----------------------------------------------------------------------------
(* Initial state: the useState initialisers *)

Init ==
    /\ reviews = <<>>
    /\ isAnalyzing = FALSE
    /\ result = None
    /\ error = None
    /\ language = "Auto-detect"
    /\ nCalls = 0
    /\ inflight = [c \in {} |-> None]
    /\ latest = [origin |-> "none", contents |-> None, response |-> 0]

----------------------------------------------------------------------------
(* analyzeReviews *)

\* the state of section 4.7 that the three state variables stand for
PipelineState ==
    IF isAnalyzing THEN "Analyzing"
    ELSE IF error # None THEN "Failed"
    ELSE IF result # None THEN "Succeeded"
    ELSE "Idle"

\* textToUse || reviews: undefined and '' are falsy
FinalReviews(textToUse) ==
    IF textToUse = None \/ textToUse[1] = <<>> THEN reviews ELSE textToUse[1]

\* contents: `... (Input Language: ${language}) ... Reviews: ${finalReviews} ...`
Contents(finalReviews) == [language |-> language, reviews |-> finalReviews]

\* ai.models.generateContent(...) is called: one more promise is pending
StartCall(finalReviews) ==
    /\ nCalls < MaxCalls
    /\ nCalls' = nCalls + 1
    /\ inflight' =
         [c \in DOMAIN inflight \cup {nCalls + 1} |->
            IF c = nCalls + 1
            THEN [solo |-> inflight = EmptyObject]
            ELSE [inflight[c] EXCEPT !.solo = FALSE]]
    /\ latest' = [origin |-> PipelineState,
                  contents |-> Contents(finalReviews),
                  response |-> 0]

\* analyzeReviews up to its await: lines 63-70
AnalyzeReviews(textToUse) ==
    LET finalReviews == FinalReviews(textToUse)
    IN  IF Blank(finalReviews)
        THEN UNCHANGED <<isAnalyzing, result, error, nCalls, inflight, latest>>
        ELSE /\ isAnalyzing' = TRUE
             /\ error' = None
             /\ StartCall(finalReviews)
             /\ UNCHANGED result

GenericError == "Failed to analyze reviews. Please try again."

CatchMessageLeaksCause(err) == err

\* the message of the catch block, line 118
CatchMessage(err) == GenericError

\* response.text || '{}'
BodyText(text) ==
    IF text = None \/ text[1] = <<>> THEN EmptyObjectText ELSE text[1]

SettleAsRetrying(c, r, resp) ==
    LET data == JSONParse(BodyText(resp.text))
    IN  /\ c \in DOMAIN inflight
        /\ IF resp.rejected /\ nCalls < MaxCalls
           THEN /\ inflight' =
                     [d \in (DOMAIN inflight \ {c}) \cup {nCalls + 1} |->
                        IF d = nCalls + 1 THEN [solo |-> FALSE] ELSE inflight[d]]
                /\ nCalls' = nCalls + 1
                /\ UNCHANGED <<isAnalyzing, result, error, latest>>
           ELSE /\ inflight' = [d \in DOMAIN inflight \ {c} |-> inflight[d]]
                /\ IF resp.rejected
                   THEN /\ error' = Some(CatchMessage(resp.cause))
                        /\ UNCHANGED result
                   ELSE IF data.ok
                        THEN /\ result' = data.value
                             /\ UNCHANGED error
                        ELSE /\ error' = Some(CatchMessage("SyntaxError"))
                             /\ UNCHANGED result
                /\ isAnalyzing' = FALSE
                /\ latest' = IF c = nCalls THEN [latest EXCEPT !.response = r] ELSE latest
                /\ UNCHANGED nCalls
        /\ UNCHANGED <<reviews, language>>

\* analyzeReviews after its await, for call c whose promise settles as
\* resp, the response numbered r: lines 114-121
SettleAs(c, r, resp) ==
    LET data == JSONParse(BodyText(resp.text))
    IN  /\ c \in DOMAIN inflight
        /\ inflight' = [d \in DOMAIN inflight \ {c} |-> inflight[d]]
        /\ IF resp.rejected
           THEN /\ error' = Some(CatchMessage(resp.cause))
                /\ UNCHANGED result
           ELSE IF data.ok
                THEN /\ result' = data.value
                     /\ UNCHANGED error
                ELSE /\ error' = Some(CatchMessage("SyntaxError"))
                     /\ UNCHANGED result
        /\ isAnalyzing' = FALSE
        /\ latest' = IF c = nCalls THEN [latest EXCEPT !.response = r] ELSE latest
        /\ UNCHANGED <<reviews, language, nCalls>>

\* the promise of call c settles as Responses[r]
Settle(c, r) == SettleAs(c, r, Responses[r])

----------------------------------------------------------------------------
(* The handlers *)

SetReviewsClearsResult(t) ==
    /\ reviews' = t
    /\ result' = None
    /\ UNCHANGED <<isAnalyzing, error, language, nCalls, inflight, latest>>

\* textarea onChange, line 272
SetReviews(t) ==
    /\ reviews' = t
    /\ UNCHANGED <<isAnalyzing, result, error, language, nCalls, inflight,
                   latest>>

\* select onChange, line 259
SetLanguage(l) ==
    /\ language' = l
    /\ UNCHANGED <<reviews, isAnalyzing, result, error, nCalls, inflight,
                   latest>>

\* textarea onPaste, lines 124-130
HandlePaste(pastedText) ==
    /\ IF ~Blank(pastedText)
       THEN /\ reviews' = pastedText
            /\ AnalyzeReviews(Some(pastedText))
       ELSE UNCHANGED <<reviews, isAnalyzing, result, error, nCalls, inflight, latest>>
    /\ UNCHANGED language

\* "Try with Example Reviews" onClick, lines 299-310
ExampleClick ==
    /\ reviews' = Example
    /\ AnalyzeReviews(Some(Example))
    /\ UNCHANGED language

\* "Generate Sales Strategy" onClick, lines 315-317; a disabled button
\* dispatches no click
GenerateClick ==
    /\ ~(isAnalyzing \/ Blank(reviews))
    /\ AnalyzeReviews(None)
    /\ UNCHANGED <<reviews, language>>

Next ==
    \/ \E t \in Texts : SetReviews(t)
    \/ \E l \in Languages : SetLanguage(l)
    \/ \E t \in Texts : HandlePaste(t)
    \/ ExampleClick
    \/ GenerateClick
    \/ \E c \in DOMAIN inflight, r \in ResponseIds : Settle(c, r)

Spec == Init /\ [][Next]_vars

\* every generateContent call eventually returns or fails
SpecFair ==
    Spec /\ \A c \in 1..MaxCalls : WF_vars(\E r \in ResponseIds : Settle(c, r))

----------------------------------------------------------------------------
(* The scorer on its own: the user types texts of up to MaxWords words *)

NextStrength ==
    \E n \in 0..MaxWords, lead \in 0..1, gap \in 1..2, trail \in 0..1 :
        SetReviews(MkText(n, lead, gap, trail))

SpecStrength == Init /\ [][NextStrength]_vars

----------------------------------------------------------------------------
(* The pipeline called directly rather than through the handlers:          *)
(* submit(rawText) of the inbound interface is analyzeReviews(textToUse)   *)
(* with any argument, in any state.                                        *)

Submit(textToUse) ==
    /\ AnalyzeReviews(textToUse)
    /\ UNCHANGED <<reviews, language>>

NextApi ==
    \/ \E t \in Texts : SetReviews(t)
    \/ \E l \in Languages : SetLanguage(l)
    \/ \E t \in Texts : Submit(Some(t))
    \/ Submit(None)
    \/ \E c \in DOMAIN inflight, r \in ResponseIds : Settle(c, r)

SpecApi == Init /\ [][NextApi]_vars

----------------------------------------------------------------------------
(* Reading the result: the "Estimated Annual Increment" of line 496 *)

\* result.growthProjection[5].projected and result.growthProjection[0].current
\* can be read without a TypeError
EstimateComputable(res) ==
    /\ res # None
    /\ "growthProjection" \in DOMAIN res[1]
    /\ Len(res[1].growthProjection) >= 6

\* Math.round(num / den) for den > 0: the nearest integer, a half rounding up
MathRound(num, den) == (2 * num + den) \div (2 * den)

AnnualIncrementOfLast(obj) ==
    LET gp == obj.growthProjection
    IN  MathRound((gp[Len(gp)].projected - gp[1].current) * 25, 10)

\* Math.round((result.growthProjection[5].projected
\*             - result.growthProjection[0].current) * 2.5)
AnnualIncrement(obj) ==
    LET gp == obj.growthProjection
    IN  MathRound((gp[6].projected - gp[1].current) * 25, 10)

----------------------------------------------------------------------------
(* The estimate on its own: analyses whose responses carry projections of  *)
(* 6 or 7 points with integer percentages                                  *)

\* largest percentage of the projections tried, besides the example's 45
MaxPct == 5

\* a projection whose first current is cur and whose sixth projected is
\* proj; every other number is taken from mid, extra points follow the sixth
ProjectionWith(cur, proj, mid, extra) ==
    << Point("Jan", cur, mid), Point("Feb", mid, mid + 1), Point("Mar", mid, mid),
       Point("Apr", mid + 1, mid), Point("May", mid, mid), Point("Jun", mid, proj) >>
      \o [i \in 1..extra |-> Point("Jul", proj + mid, proj + cur + 1)]

MembersWith(projection) ==
    [i \in 1..7 |-> IF FullMembers[i].key = "growthProjection"
                    THEN Member("growthProjection", projection)
                    ELSE FullMembers[i]]

\* a response that is not one of Responses
OtherResponse == Len(Responses) + 1

SettleEstimate(c, projection) ==
    SettleAs(c, OtherResponse, Resolved(Some(ObjectText(MembersWith(projection)))))

NextEstimate ==
    \/ \E t \in Texts : SetReviews(t)
    \/ GenerateClick
    \/ \E c \in DOMAIN inflight, cur \in 0..MaxPct, proj \in 0..MaxPct \cup {45},
          mid \in {1, 3}, extra \in 0..1 :
            SettleEstimate(c, ProjectionWith(cur, proj, mid, extra))

SpecEstimate == Init /\ [][NextEstimate]_vars

----------------------------------------------------------------------------
(* Vocabulary of the claims *)

\* a step of one of the three submitting handlers
Submission ==
    \/ \E t \in Texts : HandlePaste(t)
    \/ ExampleClick
    \/ GenerateClick

\* a step of a submitting handler whose text is not blank
NonBlankSubmission ==
    \/ \E t \in Texts : ~Blank(t) /\ HandlePaste(t)
    \/ ExampleClick
    \/ GenerateClick

Outstanding == DOMAIN inflight

\* the number of members of the token sequence ts with key k
KeyCount(ts, k) == Cardinality({i \in 1..Len(ts) : ts[i].tok = "member" /\ ts[i].key = k})

\* a JSON text with all seven fields once each and at least 6 projection points
WellFormedText(ts) ==
    /\ Len(ts) > 2
    /\ ts[1].tok = "{"
    /\ ts[Len(ts)].tok = "}"
    /\ MembersOk(SubSeq(ts, 2, Len(ts) - 1), 1)
    /\ \A k \in MandatoryFields : KeyCount(ts, k) = 1
    /\ \A i \in 1..Len(ts) :
         (ts[i].tok = "member" /\ ts[i].key = "growthProjection") => Len(ts[i].val) >= 6

WellFormedResponse(r) ==
    /\ ~Responses[r].rejected
    /\ Responses[r].text # None
    /\ WellFormedText(Responses[r].text[1])

\* obj has exactly the members of ts, each with its value
SameFields(obj, ts) ==
    /\ DOMAIN obj = {ts[i].key : i \in {j \in 1..Len(ts) : ts[j].tok = "member"}}
    /\ \A i \in 1..Len(ts) : ts[i].tok = "member" => obj[ts[i].key] = ts[i].val

\* the response resolves with (the text of) a JSON object that lacks a mandatory field
ObjectLackingField(r) ==
    /\ ~Responses[r].rejected
    /\ LET ts == BodyText(Responses[r].text)
       IN  /\ ts[1].tok = "{"
           /\ ts[Len(ts)].tok = "}"
           /\ (Len(ts) = 2 \/ MembersOk(SubSeq(ts, 2, Len(ts) - 1), 1))
           /\ \E k \in MandatoryFields : KeyCount(ts, k) = 0

\* the run that got response r failed: the call was rejected, or its body is
\* not JSON, or it is not a well-formed result
RunFailed(r) ==
    \/ Responses[r].rejected
    \/ ~JSONParse(BodyText(Responses[r].text)).ok
    \/ ~WellFormedResponse(r)

\* the tokens of s: the positions where a run of non-whitespace begins
TokenCount(s) ==
    Cardinality({i \in 1..Len(s) : ~IsSpace(s[i]) /\ (i = 1 \/ IsSpace(s[i - 1]))})

----------------------------------------------------------------------------
(* Claims *)

\* C1: a submission that arrives while isAnalyzing is a no-op (isAnalyzing,
\* result, error unchanged, no second generateContent call), so at most one
\* call is outstanding.
C1_SingleFlight ==
    [][(isAnalyzing /\ Submission) =>
         /\ UNCHANGED <<isAnalyzing, result, error, nCalls, inflight>>
         /\ Cardinality(Outstanding') <= 1]_vars

\* C2: when the call returns a JSON object lacking a mandatory field (the
\* empty object of an empty/absent body included), the pipeline ends with
\* error set and never with that object stored as the result.
C2_MissingFieldFails ==
    [][\A c \in Outstanding \ Outstanding', r \in ResponseIds :
         (Settle(c, r) /\ ObjectLackingField(r)) =>
            /\ error' # None
            /\ result' # JSONParse(BodyText(Responses[r].text)).value]_vars

\* C3: whenever a result is retained, result.growthProjection has at least 6
\* entries, so the annual-increment expression is never evaluated on less.
C3_ProjectionAtLeastSix ==
    result # None => EstimateComputable(result)

\* C4: while isAnalyzing is true because of a submission accepted from
\* Succeeded or Failed, the previous result and the previous error are
\* already cleared.
C4_ClearedOnEntry ==
    ( /\ isAnalyzing
      /\ nCalls \in Outstanding
      /\ inflight[nCalls].solo
      /\ latest.origin \in {"Succeeded", "Failed"} )
    => (result = None /\ error = None)

\* C5: result and error are never retained together.
C5_ResultXorError ==
    ~(result # None /\ error # None)

\* C6: when generateContent rejects, the pipeline leaves Analyzing with
\* isAnalyzing false and error the one generic string, whatever the cause;
\* error never holds another non-null value.
C6_GenericFailure ==
    /\ [](error \in {None, Some(GenericError)})
    /\ [][\A c \in Outstanding \ Outstanding', r \in ResponseIds :
            (Responses[r].rejected /\ Settle(c, r)) =>
               (isAnalyzing' = FALSE /\ error' = Some(GenericError))]_vars

C6_Witness ==
    /\ latest.response # 0
    /\ Responses[latest.response].rejected
    /\ Responses[latest.response].cause = "quota"
    /\ isAnalyzing = FALSE
    /\ error = Some(GenericError)

\* C7: from Succeeded and Failed a non-blank submission is accepted and
\* enters Analyzing with error null, and the terminal state then reached
\* carries an error only if this new run itself failed.
C7_NoResidue ==
    /\ [][(PipelineState \in {"Succeeded", "Failed"} /\ NonBlankSubmission) =>
            (isAnalyzing' /\ error' = None)]_vars
    /\ []( ( /\ ~isAnalyzing
             /\ error # None
             /\ latest.origin \in {"Succeeded", "Failed"} )
           => (latest.response # 0 /\ RunFailed(latest.response)) )

C9_WellFormedSucceeds ==
    [][\A c \in Outstanding \ Outstanding', r \in ResponseIds :
         (inflight[c].solo /\ WellFormedResponse(r) /\ Settle(c, r)) =>
            /\ isAnalyzing' = FALSE
            /\ error' = None
            /\ result' # None
            /\ SameFields(result'[1], Responses[r].text[1])
            /\ EstimateComputable(result')]_vars

C9_Witness ==
    /\ latest.response # 0
    /\ WellFormedResponse(latest.response)
    /\ isAnalyzing = FALSE
    /\ error = None
    /\ result # None
    /\ "painPoints" \in DOMAIN result[1]
    /\ Len(result[1].painPoints) = 8
    /\ EstimateComputable(result)

\* C10: with n whitespace-separated non-empty tokens in the input text, the
\* displayed strength is Empty/0 for n=0, Weak/25 for 1..9, Fair/50 for
\* 10..29, Good/75 for 30..59, Excellent/100 from 60 on.
C10_StrengthThresholds ==
    LET n == TokenCount(reviews)
    IN  reviewStrength =
          CASE n = 0 -> [label |-> "Empty", width |-> 0]
            [] n >= 1 /\ n < 10 -> [label |-> "Weak", width |-> 25]
            [] n >= 10 /\ n < 30 -> [label |-> "Fair", width |-> 50]
            [] n >= 30 /\ n < 60 -> [label |-> "Good", width |-> 75]
            [] n >= 60 -> [label |-> "Excellent", width |-> 100]

C10_Witness ==
    /\ TokenCount(reviews) = 60
    /\ Len(reviews) > 60 + 59
    /\ reviewStrength = [label |-> "Excellent", width |-> 100]

\* the first current and the sixth projected percentage of the retained result
FirstCurrent == result[1].growthProjection[1].current

SixthProjected == result[1].growthProjection[6].projected

\* C11: for a result with at least 6 projection points with integer
\* percentages, the estimate is round((sixth projected - first current) * 2.5):
\* 5 per 2 points of difference, an odd difference rounding its half up; it
\* depends on nothing else, and is 100 for first current 5, sixth projected 45.
C11_AnnualIncrement ==
    EstimateComputable(result) =>
        LET d == SixthProjected - FirstCurrent
            k == d \div 2
        IN  /\ AnnualIncrement(result[1]) = IF d = 2 * k THEN 5 * k ELSE 5 * k + 3
            /\ (FirstCurrent = 5 /\ SixthProjected = 45) => AnnualIncrement(result[1]) = 100

C11_Witness ==
    /\ isAnalyzing = FALSE
    /\ EstimateComputable(result)
    /\ Len(result[1].growthProjection) = 7
    /\ FirstCurrent = 5
    /\ SixthProjected = 45
    /\ AnnualIncrement(result[1]) = 100

\* ts is the JSON literal null or an object: braces around members
\* separated by single commas
ValidJSON(ts) ==
    \/ Len(ts) = 1 /\ ts[1].tok = "null"
    \/ /\ Len(ts) >= 2
       /\ ts[1].tok = "{"
       /\ ts[Len(ts)].tok = "}"
       /\ \A i \in 2..(Len(ts) - 1) :
            ts[i].tok = (IF i % 2 = 0 THEN "member" ELSE ",")
       /\ Len(ts) % 2 = 1 \/ Len(ts) = 2

\* the response resolves with a non-empty body that is not valid JSON
InvalidBody(r) ==
    /\ ~Responses[r].rejected
    /\ Responses[r].text # None
    /\ Len(Responses[r].text[1]) > 0
    /\ ~ValidJSON(Responses[r].text[1])

\* C12: when the call returns a non-empty body that is not valid JSON, the
\* pipeline ends in Failed with the generic message and isAnalyzing false,
\* and result is left as it was.
C12_UnparsableFails ==
    [][\A c \in Outstanding \ Outstanding', r \in ResponseIds :
         (InvalidBody(r) /\ Settle(c, r)) =>
            /\ isAnalyzing' = FALSE
            /\ error' = Some(GenericError)
            /\ result' = result]_vars

C12_Witness ==
    /\ latest.response \in ResponseIds
    /\ InvalidBody(latest.response)
    /\ Responses[latest.response].text[1][Len(Responses[latest.response].text[1])].tok = "}"
    /\ isAnalyzing = FALSE
    /\ error = Some(GenericError)
    /\ result = None

\* C13: every accepted submission starts exactly one generateContent call,
\* a rejected (blank) one starts none, and the settling of a call, failed or
\* not, starts none: calls are started by accepted submissions only, one each.
C13_OneCallPerSubmission ==
    [][/\ nCalls' # nCalls =>
            /\ NonBlankSubmission
            /\ nCalls' = nCalls + 1
            /\ Outstanding' = Outstanding \cup {nCalls + 1}
       /\ NonBlankSubmission =>
            /\ nCalls' = nCalls + 1
            /\ Outstanding' = Outstanding \cup {nCalls + 1}
       /\ (\E t \in Texts : Blank(t) /\ HandlePaste(t)) =>
            UNCHANGED <<nCalls, inflight>>
       /\ \A c \in Outstanding \ Outstanding', r \in ResponseIds :
            Settle(c, r) => (nCalls' = nCalls /\ Outstanding' = Outstanding \ {c})]_vars

C13_Witness ==
    /\ nCalls = 2
    /\ Outstanding = {}
    /\ latest.response \in ResponseIds
    /\ Responses[latest.response].rejected
    /\ isAnalyzing = FALSE
    /\ error = Some(GenericError)

\* C14: only the completion of a call moves the machine out of Analyzing;
\* once every call started has returned or failed, isAnalyzing is false and
\* a result or an error is set; and, every call eventually returning or
\* failing, Analyzing always leads to such a state.
C14_RunsToCompletion ==
    /\ [][(isAnalyzing /\ ~isAnalyzing') =>
            \E c \in Outstanding \ Outstanding', r \in ResponseIds : Settle(c, r)]_vars
    /\ []((nCalls > 0 /\ Outstanding = {}) =>
            (~isAnalyzing /\ (result # None \/ error # None)))
    /\ isAnalyzing ~> (~isAnalyzing /\ (result # None \/ error # None))

\* C15: isAnalyzing, result and error are written only by the submit path:
\* a step that changes any of them starts a call or settles one, and a step
\* that only types into the text area or changes the language leaves the
\* three unchanged, while Analyzing included.
C15_OnlySubmitWrites ==
    [][/\ (<<isAnalyzing, result, error>>' # <<isAnalyzing, result, error>>) =>
            (nCalls' = nCalls + 1 \/ Outstanding' # Outstanding)
       /\ ((reviews' # reviews \/ language' # language)
              /\ nCalls' = nCalls /\ Outstanding' = Outstanding) =>
            UNCHANGED <<isAnalyzing, result, error>>]_vars

\* the user typed and changed the language while the analysis was pending
C15_Witness ==
    /\ isAnalyzing
    /\ nCalls = 1
    /\ result = None
    /\ error = None
    /\ reviews # latest.contents.reviews
    /\ language # latest.contents.language

\* C16: isAnalyzing is true exactly when at least one generateContent call
\* is outstanding.
C16_AnalyzingIffOutstanding ==
    isAnalyzing <=> (Outstanding # {})

\* C17: whenever no call is outstanding, what is retained is the outcome of
\* the most recently accepted submission: its error if it failed, its parsed
\* body as the result if it succeeded.
C17_LatestOutcomeRetained ==
    (nCalls > 0 /\ Outstanding = {}) =>
        LET resp == Responses[latest.response]
            ts == BodyText(resp.text)
        IN  IF resp.rejected \/ ~ValidJSON(ts)
            THEN error = Some(GenericError)
            ELSE result = JSONParse(ts).value

=============================================================================
